---- MODULE Spec2Model ----
(***************************************************************************)
(* FractalNet with per-sample drop-path (src/fractal.py).                  *)
(*                                                                         *)
(* Tensors [B, C, H, W] are modelled by one element per sample: every      *)
(* operation of FractalBlock.join (stack, multiply by the [n_cols,B,1,1,1] *)
(* mask, sum and mean over dim 0, divide by the [B,1,1,1] alive count) is  *)
(* element-wise in C, H and W.  A tensor is a function 0..B-1 -> value and *)
(* a value is an exact rational <<num, den>> in lowest terms; float        *)
(* rounding is not modelled.  x/0 is <<1,0>> (inf) or <<0,0>> (nan).       *)
(* Indices are 0-based as in the source.                                    *)
(***************************************************************************)
EXTENDS Integers, Sequences, FiniteSets, TLC

\* ------------------------------------------------------------- bounds
\* drop_mask and join called on their own (SpecMask, SpecJoin)
MaxCols == 3        \* n_columns ranges over 1..MaxCols
MaxB == 2           \* batch sizes range over 0..MaxB
MaxSeed == 0        \* the outputs given to join are built from seeds 0..MaxSeed
\* forward passes (Spec): every depth of every block draws a mask per sample,
\* so the reachable states grow with (2^n_columns)^(max_depth * batch)
FwdCols == 2        \* n_columns ranges over 1..FwdCols
FwdB == 1           \* the batch of a pass has 1..FwdB samples
NBlocks == 2        \* len(channels): the number of FractalBlocks of the net
MaxPasses == 2      \* FractalNet.forward is called at most MaxPasses times

\* p_local_drop and gdrop_ratio: the endpoints of [0,1] and one inner point
Probs == {<<0, 1>>, <<1, 2>>, <<1, 1>>}

VARIABLES
    self,   \* the module's fields set by __init__ (FractalBlock and FractalNet)
    pc,     \* position of the running call
    net,    \* frame of FractalNet.forward
    blk,    \* frame of FractalBlock.forward
    jn,     \* frame of FractalBlock.join / drop_mask (last call)
    hist    \* history: passes made, random draws made, transforms invoked

vars == <<self, pc, net, blk, jn, hist>>

\* ---------------------------------------------------------- rationals
Abs(a) == IF a < 0 THEN -a ELSE a
Sign(a) == IF a < 0 THEN -1 ELSE IF a = 0 THEN 0 ELSE 1

RECURSIVE Gcd(_, _)
Gcd(a, b) == IF b = 0 THEN a ELSE Gcd(b, a % b)

Rat(n, d) ==
    IF d = 0 THEN <<Sign(n), 0>>
    ELSE LET g == Gcd(Abs(n), Abs(d))
         IN <<(Sign(d) * n) \div g, Abs(d) \div g>>

Zero == <<0, 1>>
One == <<1, 1>>
RAdd(a, b) == Rat(a[1] * b[2] + b[1] * a[2], a[2] * b[2])
RSub(a, b) == Rat(a[1] * b[2] - b[1] * a[2], a[2] * b[2])
RMulInt(a, m) == Rat(a[1] * m, a[2])
RDivInt(a, m) == Rat(a[1], a[2] * m)
Floor(a) == a[1] \div a[2]

\* sum of f[0] .. f[n-1]
RECURSIVE ISum(_, _)
ISum(f, n) == IF n = 0 THEN 0 ELSE ISum(f, n - 1) + f[n - 1]

RECURSIVE RSum(_, _)
RSum(f, n) == IF n = 0 THEN Zero ELSE RAdd(RSum(f, n - 1), f[n - 1])

RECURSIVE Pow2(_)
Pow2(e) == IF e = 0 THEN 1 ELSE 2 * Pow2(e - 1)

\* ------------------------------------------- FractalBlock.__init__
max_depth(n_columns) == Pow2(n_columns - 1)

\* (mutant) dist is never halved
dist_nohalve(n_columns, c) == max_depth(n_columns)

\* dist when the outer loop reaches column c: max_depth halved c times
RECURSIVE dist(_, _)
dist(n_columns, c) ==
    IF c = 0 THEN max_depth(n_columns) ELSE dist(n_columns, c - 1) \div 2

\* columns[c][i]: TRUE for a ConvBlock, FALSE for None
columns(n_columns) ==
    [c \in 0..(n_columns - 1) |->
        [i \in 0..(max_depth(n_columns) - 1) |->
            (i + 1) % dist(n_columns, c) = 0]]

\* count[i]: incremented once for every module appended at depth i
count(n_columns) ==
    [i \in 0..(max_depth(n_columns) - 1) |->
        Cardinality({c \in 0..(n_columns - 1) : columns(n_columns)[c][i]})]

Construct(n_columns, p_local_drop, training, doubling, consist_gdrop, gdrop_ratio) ==
    [n_columns |-> n_columns,
     max_depth |-> max_depth(n_columns),
     p_local_drop |-> p_local_drop,
     doubler |-> doubling,
     columns |-> columns(n_columns),
     count |-> count(n_columns),
     training |-> training,
     consist_gdrop |-> consist_gdrop,
     gdrop_ratio |-> gdrop_ratio]

\* ------------------------------------------- FractalBlock.drop_mask
\* np.random.binomial(1, q): the values one draw can take
Binomial(q) == IF q = Zero THEN {0} ELSE IF q = One THEN {1} ELSE {0, 1}

\* (mutant) the global index is not translated to the active columns
gdrop_cols_raw(n_columns, n_cols, global_cols) == global_cols

gdrop_cols(n_columns, n_cols, global_cols) ==
    [k \in DOMAIN global_cols |-> global_cols[k] - (n_columns - n_cols)]

\* (mutant) negative indices are not filtered out
gdrop_indices_all(gcols) == DOMAIN gcols

gdrop_indices(gcols) == {k \in DOMAIN gcols : gcols[k] >= 0}

\* numpy indexing of an axis of length n: a negative index counts from the end
WrapIdx(n, r) == IF r < 0 THEN r + n ELSE r
IndexError(n, r) == r >= n \/ r < -n

\* gdrop_mask = zeros([n_cols, GB]); gdrop_mask[gcols[idx], idx] = 1.
gdrop_mask(n_cols, GB, gcols, idx) ==
    [r \in 0..(n_cols - 1) |->
        [k \in 0..(GB - 1) |->
            IF k \in idx /\ WrapIdx(n_cols, gcols[k]) = r THEN 1 ELSE 0]]

alive_count(mask, n_cols, LB) ==
    [k \in 0..(LB - 1) |-> ISum([r \in 0..(n_cols - 1) |-> mask[r][k]], n_cols)]

dead_indices(acount) == {k \in DOMAIN acount : acount[k] = 0}

\* (mutant) no resurrection
resurrect_none(draw, dead, picks) == draw

\* ldrop_mask[randint(0, n_cols, size), dead_indices] = 1.
resurrect(draw, dead, picks) ==
    [r \in DOMAIN draw |->
        [k \in DOMAIN draw[r] |->
            IF k \in dead /\ picks[k] = r THEN 1 ELSE draw[r][k]]]

concatenate(gmask, lmask, n_cols, GB, B) ==
    [r \in 0..(n_cols - 1) |->
        [k \in 0..(B - 1) |-> IF k < GB THEN gmask[r][k] ELSE lmask[r][k - GB]]]

\* the draws drop_mask can make: the binomial sample, then one randint per
\* dead local sample
LocalDraws(n_cols, LB, p_local_drop) ==
    [0..(n_cols - 1) -> [0..(LB - 1) -> Binomial(RSub(One, p_local_drop))]]

Picks(n_cols, dead) == [dead -> 0..(n_cols - 1)]

\* drop_mask(B, global_cols, n_cols) under the draws (draw, picks)
drop_mask(n_columns, B, global_cols, n_cols, draw, picks) ==
    LET GB == Cardinality(DOMAIN global_cols)
        gcols == gdrop_cols(n_columns, n_cols, global_cols)
        gidx == gdrop_indices(gcols)
        LB == B - GB
        dead == dead_indices(alive_count(draw, n_cols, LB))
        lmask == resurrect(draw, dead, picks)
    IN [mask |-> concatenate(gdrop_mask(n_cols, GB, gcols, gidx), lmask, n_cols, GB, B),
        oob |-> \E k \in gidx : IndexError(n_cols, gcols[k]),
        GB |-> GB,
        gcols |-> gcols,
        ldraw |-> draw,
        dead |-> dead,
        picks |-> picks]

NoMask == [mask |-> <<>>, oob |-> FALSE, GB |-> 0, gcols |-> <<>>,
           ldraw |-> <<>>, dead |-> {}, picks |-> <<>>]

\* ------------------------------------------------ FractalBlock.join
n_alive(mask, n_cols, B) ==
    [k \in 0..(B - 1) |-> ISum([r \in 0..(n_cols - 1) |-> mask[r][k]], n_cols)]

masked_out(outs, mask, n_cols, B) ==
    [r \in 0..(n_cols - 1) |-> [k \in 0..(B - 1) |-> RMulInt(outs[r][k], mask[r][k])]]

\* (mutant) the alive count is not clamped
clamp_none(nalive) == nalive

\* n_alive[n_alive == 0.] = 1.
clamp(nalive) == [k \in DOMAIN nalive |-> IF nalive[k] = 0 THEN 1 ELSE nalive[k]]

join_training(outs, mask, n_cols, B) ==
    LET na == clamp(n_alive(mask, n_cols, B))
        mo == masked_out(outs, mask, n_cols, B)
    IN [k \in 0..(B - 1) |->
           RDivInt(RSum([r \in 0..(n_cols - 1) |-> mo[r][k]], n_cols), na[k])]

join_mean(outs, n_cols, B) ==
    [k \in 0..(B - 1) |->
        RDivInt(RSum([r \in 0..(n_cols - 1) |-> outs[r][k]], n_cols), n_cols)]

\* the frame of one join call: its arguments, the mask it drew (training) and its result
join(training, n_columns, outs, global_cols, dm) ==
    LET n_cols == Cardinality(DOMAIN outs)
        B == Cardinality(DOMAIN outs[0])
    IN [n_cols |-> n_cols, B |-> B, outs |-> outs, global_cols |-> global_cols,
        training |-> training,
        dm |-> IF training THEN dm ELSE NoMask,
        out |-> IF training THEN join_training(outs, dm.mask, n_cols, B)
                ELSE join_mean(outs, n_cols, B)]

\* every (mask draw, result) a training-mode join call can have
TrainingOutcomes(n_columns, p_local_drop, outs, global_cols) ==
    LET n_cols == Cardinality(DOMAIN outs)
        B == Cardinality(DOMAIN outs[0])
        LB == B - Cardinality(DOMAIN global_cols)
    IN UNION {
         { join(TRUE, n_columns, outs, global_cols,
                drop_mask(n_columns, B, global_cols, n_cols, draw, picks))
           : picks \in Picks(n_cols, dead_indices(alive_count(draw, n_cols, LB))) }
         : draw \in LocalDraws(n_cols, LB, p_local_drop) }

\* (mutant) the mask is applied whatever self.training is
JoinOutcomes_alwaysdrop(training, n_columns, p_local_drop, outs, global_cols) ==
    TrainingOutcomes(n_columns, p_local_drop, outs, global_cols)

\* every result one join call can have: if self.training ... else ...
JoinOutcomes(training, n_columns, p_local_drop, outs, global_cols) ==
    IF training
    THEN TrainingOutcomes(n_columns, p_local_drop, outs, global_cols)
    ELSE { join(FALSE, n_columns, outs, global_cols, NoMask) }

\* --------------------------------------------- external collaborators
\* Stand-ins for the layers this file only calls (torch.nn): deterministic,
\* acting on each sample on its own.  A value that is inf or nan stays so.
ConvBlockAt(n_columns, c, i, v) ==
    IF v[2] = 0 THEN v ELSE RAdd(RMulInt(v, 2), <<i * n_columns + c + 1, 1>>)

\* columns[c][i](t)
ConvBlock(n_columns, c, i, t) == [k \in DOMAIN t |-> ConvBlockAt(n_columns, c, i, t[k])]

\* self.doubler(x): ConvBlock(C_in, C_out, 1, padding=0)
Doubler(t) == [k \in DOMAIN t |-> IF t[k][2] = 0 THEN t[k] ELSE RAdd(RMulInt(t[k], 3), One)]

\* nn.MaxPool2d(2): reduces its input; here to one of three levels
MaxPool2d(t) == [k \in DOMAIN t |-> IF t[k][2] = 0 THEN t[k] ELSE <<Floor(t[k]) % 3, 1>>]

Flatten(t) == t

Linear(t) == [k \in DOMAIN t |-> IF t[k][2] = 0 THEN t[k] ELSE RAdd(t[k], One)]

\* the output of path c given to a join: B samples built from a seed
TestTensor(seed, c, B) == [k \in 0..(B - 1) |-> <<seed + 3 * c + k, 1>>]

\* the batch of B samples given to a forward pass
Input(B) == [k \in 0..(B - 1) |-> <<k + 1, 1>>]

\* ------------------------------------------------- FractalNet.__init__
\* self.layers for gap = 0: every block is followed by a max-pool, then
\* Flatten and the fc layer
layers ==
    [j \in 0..(2 * NBlocks + 1) |->
        IF j < 2 * NBlocks
        THEN (IF j % 2 = 0 THEN "FractalBlock" ELSE "MaxPool2d")
        ELSE IF j = 2 * NBlocks THEN "Flatten" ELSE "Linear"]

n_layers == 2 * NBlocks + 2

\* ------------------------------------------------------------ frames
None == [none |-> TRUE, cols |-> <<>>]
Some(cols) == [none |-> FALSE, cols |-> cols]

NoNet == [x |-> <<>>, B |-> 0, GB |-> 0, out |-> <<>>, global_cols |-> None,
          li |-> 0, deepest |-> FALSE]

NoBlk == [input |-> <<>>, outs |-> <<>>, i |-> 0, st |-> 0, invoked |-> {}]

NoJoin == [n_cols |-> 0, B |-> 0, outs |-> <<>>, global_cols |-> <<>>,
           training |-> FALSE, dm |-> NoMask, out |-> <<>>]

NoHist == [passes |-> 0, nsampled |-> 0, nblocks |-> 0, ndraws |-> 0, seen |-> {}]

Configs(ncols, trainings, doublings, consists, ratios) ==
    { Construct(n, p, t, d, c, r) :
        n \in ncols, p \in Probs, t \in trainings, d \in doublings,
        c \in consists, r \in ratios }

\* =====================================================================
\* SpecMask: drop_mask called on its own, over every input of the bounds
\* =====================================================================
InitMask ==
    /\ self \in Configs(1..MaxCols, {TRUE}, {FALSE}, {FALSE}, {Zero})
    /\ pc = "drop_mask"
    /\ \E B \in 0..MaxB : \E GB \in 0..B : \E n_cols \in 1..self.n_columns :
       \E gc \in [0..(GB - 1) -> 0..(self.n_columns - 1)] :
          jn = [NoJoin EXCEPT !.n_cols = n_cols, !.B = B, !.global_cols = gc,
                              !.training = TRUE]
    /\ net = NoNet /\ blk = NoBlk /\ hist = NoHist

DropMaskCall ==
    /\ pc = "drop_mask"
    /\ \E draw \in LocalDraws(jn.n_cols, jn.B - Cardinality(DOMAIN jn.global_cols),
                              self.p_local_drop) :
       \E picks \in Picks(jn.n_cols,
                          dead_indices(alive_count(draw, jn.n_cols,
                              jn.B - Cardinality(DOMAIN jn.global_cols)))) :
          jn' = [jn EXCEPT !.dm = drop_mask(self.n_columns, jn.B, jn.global_cols,
                                            jn.n_cols, draw, picks)]
    /\ pc' = "mask_ret"
    /\ UNCHANGED <<self, net, blk, hist>>

NextMask == DropMaskCall

SpecMask == InitMask /\ [][NextMask]_vars

\* =====================================================================
\* SpecJoin: join called on its own, in training and in inference mode
\* =====================================================================
InitJoin ==
    /\ self \in Configs(1..MaxCols, BOOLEAN, {FALSE}, {FALSE}, {Zero})
    /\ pc = "join"
    /\ \E B \in 1..MaxB : \E GB \in 0..B : \E n_cols \in 1..self.n_columns :
       \E seed \in 0..MaxSeed :
       \E gc \in [0..(GB - 1) -> 0..(self.n_columns - 1)] :
          jn = [NoJoin EXCEPT !.n_cols = n_cols, !.B = B, !.global_cols = gc,
                              !.training = self.training,
                              !.outs = [c \in 0..(n_cols - 1) |-> TestTensor(seed, c, B)]]
    /\ net = NoNet /\ blk = NoBlk /\ hist = NoHist

JoinCall ==
    /\ pc = "join"
    /\ jn' \in JoinOutcomes(self.training, self.n_columns, self.p_local_drop,
                            jn.outs, jn.global_cols)
    /\ pc' = "join_ret"
    /\ UNCHANGED <<self, net, blk, hist>>

NextJoin == JoinCall

SpecJoin == InitJoin /\ [][NextJoin]_vars

\* =====================================================================
\* Spec: FractalNet.forward, pass after pass; FractalBlock.forward runs one
\* depth level per step
\* =====================================================================
Init ==
    /\ self \in Configs(1..FwdCols, BOOLEAN, BOOLEAN, BOOLEAN, Probs)
    /\ pc = "idle"
    /\ net = NoNet /\ blk = NoBlk /\ jn = NoJoin /\ hist = NoHist

\* FractalNet.forward, lines 242-244: GB, out = x, global_cols = None
Forward(x, deepest) ==
    /\ pc \in {"idle", "done"}
    /\ hist.passes < MaxPasses
    /\ net' = [x |-> x, B |-> Cardinality(DOMAIN x),
               GB |-> Floor(RMulInt(self.gdrop_ratio, Cardinality(DOMAIN x))),
               out |-> x, global_cols |-> None, li |-> 0, deepest |-> deepest]
    /\ blk' = NoBlk
    /\ jn' = NoJoin
    /\ hist' = [hist EXCEPT !.passes = @ + 1, !.nsampled = 0, !.nblocks = 0, !.ndraws = 0]
    /\ pc' = "layer"
    /\ UNCHANGED self

\* (mutant) sampled before every block, whatever consist_gdrop is
resample_always == TRUE

\* the global_cols a block is called with: sampled afresh (np.random.randint)
\* unless consist_gdrop is set and a choice exists
resample == (~self.consist_gdrop) \/ net.global_cols.none

GlobalCols ==
    IF resample
    THEN {Some(gc) : gc \in [0..(net.GB - 1) -> 0..(self.n_columns - 1)]}
    ELSE {net.global_cols}

\* lines 246-250 and 147-148: the layer is a FractalBlock; enter its forward
BlockCall ==
    /\ pc = "layer"
    /\ net.li < n_layers
    /\ layers[net.li] = "FractalBlock"
    /\ \E gc \in GlobalCols :
          net' = [net EXCEPT !.global_cols = gc]
    /\ hist' = [hist EXCEPT !.nsampled = IF resample THEN @ + 1 ELSE @,
                            !.nblocks = @ + 1]
    /\ LET out == IF self.doubler THEN Doubler(net.out) ELSE net.out
       IN blk' = [NoBlk EXCEPT !.input = out,
                               !.outs = [c \in 0..(self.n_columns - 1) |-> out]]
    /\ pc' = "depth"
    /\ UNCHANGED <<self, jn>>

\* (mutant) every column is taken at every depth
st_all(i, deepest) == 0

\* first column of the depth's join
st(i, deepest) ==
    IF deepest THEN self.n_columns - 1 ELSE self.n_columns - self.count[i]

\* (mutant) the joined result overwrites every column
broadcast_all(outs, first, joined) == [c \in DOMAIN outs |-> joined]

\* outs[c] = joined for c in range(st, n_columns)
broadcast(outs, first, joined) ==
    [c \in DOMAIN outs |-> IF c >= first THEN joined ELSE outs[c]]

\* lines 149-165: one iteration of the depth loop
DepthStep ==
    /\ pc = "depth"
    /\ blk.i < self.max_depth
    /\ LET i == blk.i
           first == st(i, net.deepest)
           cur_outs == [r \in 0..(self.n_columns - first - 1) |->
                           ConvBlock(self.n_columns, first + r, i, blk.outs[first + r])]
           absent == \E c \in first..(self.n_columns - 1) : ~self.columns[c][i]
       IN /\ jn' \in JoinOutcomes(self.training, self.n_columns, self.p_local_drop,
                                  cur_outs, net.global_cols.cols)
          /\ blk' = [blk EXCEPT !.outs = broadcast(blk.outs, first, jn'.out),
                                !.i = i + 1,
                                !.st = first,
                                !.invoked = {<<c, i>> : c \in first..(self.n_columns - 1)}]
          \* calling None raises TypeError
          /\ pc' = IF absent THEN "TypeError" ELSE "depth"
    /\ hist' = [hist EXCEPT !.ndraws = IF self.training THEN @ + 1 ELSE @]
    /\ UNCHANGED <<self, net>>

\* the value FractalBlock.forward returns (line 167)
forward_return(outs) == outs[0]

\* line 167 and line 250: out = layer(out, global_cols, deepest); the frames of
\* the block's forward and of its last join are gone
BlockReturn ==
    /\ pc = "depth"
    /\ blk.i = self.max_depth
    /\ net' = [net EXCEPT !.out = forward_return(blk.outs), !.li = @ + 1]
    /\ blk' = NoBlk
    /\ jn' = NoJoin
    /\ pc' = "layer"
    /\ UNCHANGED <<self, hist>>

Apply(layer, t) ==
    IF layer = "MaxPool2d" THEN MaxPool2d(t)
    ELSE IF layer = "Flatten" THEN Flatten(t)
    ELSE Linear(t)

\* line 252: out = layer(out)
ExtLayer ==
    /\ pc = "layer"
    /\ net.li < n_layers
    /\ layers[net.li] # "FractalBlock"
    /\ net' = [net EXCEPT !.out = Apply(layers[net.li], net.out), !.li = @ + 1]
    /\ UNCHANGED <<self, pc, blk, jn, hist>>

\* line 254: return out.  The history keeps the result of an inference-mode pass.
NetReturn ==
    /\ pc = "layer"
    /\ net.li = n_layers
    /\ pc' = "done"
    /\ hist' = [hist EXCEPT !.seen =
                   IF self.training THEN @
                   ELSE @ \cup {[x |-> net.x, deepest |-> net.deepest, out |-> net.out]}]
    /\ UNCHANGED <<self, net, blk, jn>>

Inputs == {Input(B) : B \in 1..FwdB}

Next ==
    \/ \E x \in Inputs, deepest \in BOOLEAN : Forward(x, deepest)
    \/ BlockCall
    \/ DepthStep
    \/ BlockReturn
    \/ ExtLayer
    \/ NetReturn

Spec == Init /\ [][Next]_vars

\* =====================================================================
\* Properties
\* =====================================================================
Cols == 0..(self.n_columns - 1)
Depths == 0..(self.max_depth - 1)

\* the rows of mask column k that are 1
AliveRows(mask, n_cols, k) == {r \in 0..(n_cols - 1) : mask[r][k] = 1}

RECURSIVE RSumOver(_, _)
RSumOver(f, S) ==
    IF S = {} THEN Zero
    ELSE LET r == CHOOSE r \in S : TRUE IN RAdd(f[r], RSumOver(f, S \ {r}))

\* the transforms column g holds at depths below upto, applied in depth order to v
RECURSIVE ColumnChain(_, _, _)
ColumnChain(g, v, upto) ==
    IF upto = 0 THEN v
    ELSE LET w == ColumnChain(g, v, upto - 1)
         IN IF self.columns[g][upto - 1]
            THEN ConvBlockAt(self.n_columns, g, upto - 1, w)
            ELSE w

\* C1: every local sample column (GB..B-1) of the mask drop_mask returns holds a
\* 1; a local column whose binomial draw is all-zero has exactly one row, in
\* [0, n_cols), set to 1.
C1_Resurrection ==
    pc = "mask_ret" =>
        \A k \in jn.dm.GB..(jn.B - 1) :
            LET col == AliveRows(jn.dm.mask, jn.n_cols, k)
                drawn == AliveRows(jn.dm.ldraw, jn.n_cols, k - jn.dm.GB)
            IN /\ \A r \in 0..(jn.n_cols - 1) : jn.dm.mask[r][k] \in {0, 1}
               /\ col # {}
               /\ drawn = {} => Cardinality(col) = 1
               /\ drawn # {} => col = drawn

C1_Witness ==
    /\ pc = "mask_ret"
    /\ self.p_local_drop = One
    /\ jn.n_cols = 3 /\ jn.B = 2 /\ jn.dm.GB = 0
    /\ jn.dm.dead = {0, 1}
    /\ jn.dm.mask[2][0] = 1 /\ jn.dm.mask[0][1] = 1

\* C2: for a global sample k (global_cols[k] in [0, n_columns)) mask column k is
\* binary, one-hot at local_idx = global_cols[k] - (n_columns - n_cols) when
\* 0 <= local_idx < n_cols and all-zero otherwise; a negative local_idx sets no
\* row, local_idx never reaches n_cols and no index is out of range.
C2_GlobalOneHot ==
    pc = "mask_ret" =>
        /\ ~jn.dm.oob
        /\ \A k \in 0..(jn.dm.GB - 1) :
              LET local_idx == jn.global_cols[k] - (self.n_columns - jn.n_cols)
                  col == AliveRows(jn.dm.mask, jn.n_cols, k)
              IN /\ \A r \in 0..(jn.n_cols - 1) : jn.dm.mask[r][k] \in {0, 1}
                 /\ local_idx < jn.n_cols
                 /\ col = IF local_idx >= 0 THEN {local_idx} ELSE {}

C2_Witness ==
    /\ pc = "mask_ret"
    /\ self.n_columns = 3 /\ jn.n_cols = 2 /\ jn.B = 2 /\ jn.dm.GB = 2
    /\ jn.global_cols[0] = 0 /\ jn.global_cols[1] = 2
    /\ AliveRows(jn.dm.mask, 2, 0) = {}
    /\ AliveRows(jn.dm.mask, 2, 1) = {1}

\* C3: in training mode join returns, per sample, the sum of the outputs of the
\* alive paths divided by max(1, number of alive paths): the divisor is never
\* zero, no alive path gives exactly zero, one alive path gives exactly that
\* path's output.
C3_JoinTraining ==
    (pc = "join_ret" /\ self.training) =>
        \A k \in 0..(jn.B - 1) :
            LET alive == AliveRows(jn.dm.mask, jn.n_cols, k)
                divisor == IF Cardinality(alive) = 0 THEN 1 ELSE Cardinality(alive)
                path == [r \in 0..(jn.n_cols - 1) |-> jn.outs[r][k]]
            IN /\ jn.out[k][2] # 0
               /\ RMulInt(jn.out[k], divisor) = RSumOver(path, alive)
               /\ alive = {} => jn.out[k] = Zero
               /\ \A r \in alive : alive = {r} => jn.out[k] = jn.outs[r][k]

C3_Witness ==
    /\ pc = "join_ret" /\ self.training
    /\ self.n_columns = 3 /\ jn.n_cols = 2 /\ jn.B = 2
    /\ Cardinality(DOMAIN jn.global_cols) = 1
    /\ AliveRows(jn.dm.mask, 2, 0) = {}
    /\ AliveRows(jn.dm.mask, 2, 1) = {0, 1}
    /\ jn.out[0] = Zero
    /\ jn.out[1] = <<5, 2>>

\* C4: in inference mode join returns the unweighted mean of the outputs it is
\* given, draws no mask, and repeated inference-mode passes over the same input
\* return the same output although forward still samples global_cols.
C4_Inference ==
    ~self.training =>
        /\ hist.ndraws = 0
        /\ jn.dm = NoMask
        /\ pc = "depth" /\ blk.i > 0 =>
              \A k \in 0..(jn.B - 1) :
                 RMulInt(jn.out[k], jn.n_cols) =
                    RSumOver([r \in 0..(jn.n_cols - 1) |-> jn.outs[r][k]],
                             0..(jn.n_cols - 1))
        /\ \A a \in hist.seen : \A b \in hist.seen :
              (a.x = b.x /\ a.deepest = b.deepest) => a.out = b.out

C4_Witness ==
    /\ ~self.training
    /\ pc = "done"
    /\ hist.passes = 2
    /\ Cardinality(hist.seen) = 1
    /\ self.n_columns = 2
    /\ net.GB = 1
    /\ ~net.deepest
    /\ hist.nsampled = NBlocks

\* C5 (as the spec states it): when forward has finished the last depth level
\* every column's running output equals the result of the last join, the value
\* returned is that result, and with deepest = True (inference mode) it is the
\* deepest column's max_depth transforms applied in sequence to the block input.
C5_ReturnsLastJoin ==
    (pc = "depth" /\ blk.i = self.max_depth) =>
        /\ \A c \in Cols : blk.outs[c] = jn.out
        /\ forward_return(blk.outs) = jn.out
        /\ (net.deepest /\ ~self.training) =>
              \A k \in 0..(net.B - 1) :
                 forward_return(blk.outs)[k] =
                    ColumnChain(self.n_columns - 1, blk.input[k], self.max_depth)

\* the part of C5 the code satisfies: deepest = False, or a single column
C5_ReturnsLastJoinFullSchedule ==
    (pc = "depth" /\ blk.i = self.max_depth /\ (~net.deepest \/ self.n_columns = 1)) =>
        /\ \A c \in Cols : blk.outs[c] = jn.out
        /\ forward_return(blk.outs) = jn.out

\* self.count as the list count[0], ..., count[max_depth-1]
CountList == [j \in 1..self.max_depth |-> self.count[j - 1]]

\* C6 (as the spec states it): for n_columns = 3 the table is count = [4, 2, 1].
C6_CountAsStated ==
    self.n_columns = 3 => CountList = <<4, 2, 1>>

\* C6 (amended): for n_columns = 3, max_depth = 4 and count = [1, 2, 1, 3]
\* (indexed by depth); column 2 holds a transform at all 4 depths, column 1 at
\* depths 1 and 3, column 0 at depth 3 only (4, 2 and 1 transforms per column).
C6_CountTable ==
    self.n_columns = 3 =>
        /\ self.max_depth = 4
        /\ CountList = <<1, 2, 1, 3>>
        /\ {i \in Depths : self.columns[2][i]} = {0, 1, 2, 3}
        /\ {i \in Depths : self.columns[1][i]} = {1, 3}
        /\ {i \in Depths : self.columns[0][i]} = {3}

C6_Witness ==
    /\ self.n_columns = 3
    /\ pc = "mask_ret"
    /\ jn.n_cols = self.count[3]

\* C7: in one pass over the K = NBlocks blocks the global column choice starts
\* unset, is sampled exactly once (before the first block) and passed unchanged
\* to every block when consist_gdrop is set, and is sampled afresh before each
\* block otherwise; it has length GB = floor(B * gdrop_ratio) and entries in
\* [0, n_columns).
C7_State ==
    pc # "idle" =>
        /\ (pc = "layer" /\ net.li = 0) => (net.global_cols.none /\ hist.nsampled = 0)
        /\ net.global_cols.none <=> hist.nblocks = 0
        /\ net.GB * self.gdrop_ratio[2] <= net.B * self.gdrop_ratio[1]
        /\ net.B * self.gdrop_ratio[1] < (net.GB + 1) * self.gdrop_ratio[2]
        /\ ~net.global_cols.none =>
              /\ DOMAIN net.global_cols.cols = 0..(net.GB - 1)
              /\ \A k \in 0..(net.GB - 1) : net.global_cols.cols[k] \in Cols
        /\ hist.nsampled =
              IF self.consist_gdrop THEN (IF hist.nblocks = 0 THEN 0 ELSE 1)
              ELSE hist.nblocks
        /\ pc = "done" => hist.nblocks = NBlocks

C7_Step ==
    (self.consist_gdrop /\ ~net.global_cols.none /\ ~net'.global_cols.none)
        => net'.global_cols = net.global_cols

C7_GlobalChoice == [](C7_State) /\ [][C7_Step]_vars

C7_Witness ==
    /\ pc = "done"
    /\ self.consist_gdrop
    /\ hist.passes = 2
    /\ net.B = 1 /\ net.GB = 1
    /\ hist.nsampled = 1 /\ hist.nblocks = NBlocks
    /\ self.n_columns = 2
    /\ net.global_cols.cols[0] = 1

\* C8: columns[c][i] holds a transform exactly when (i+1) mod 2^(n_columns-1-c)
\* is 0; at depth i these are the columns n_columns - count[i] .. n_columns-1 and
\* the deepest column holds one at every depth; forward never invokes an absent
\* cell and invokes count[i] transforms at depth i (deepest = False) or the one
\* of column n_columns-1 (deepest = True).
C8_Schedule ==
    /\ \A c \in Cols : \A i \in Depths :
          self.columns[c][i] <=> ((i + 1) % Pow2(self.n_columns - 1 - c) = 0)
    /\ \A i \in Depths :
          /\ {c \in Cols : self.columns[c][i]} =
                (self.n_columns - self.count[i])..(self.n_columns - 1)
          /\ self.columns[self.n_columns - 1][i]
    /\ pc # "TypeError"
    /\ (pc = "depth" /\ blk.i > 0) =>
          /\ \A cell \in blk.invoked : self.columns[cell[1]][cell[2]]
          /\ blk.invoked =
                IF net.deepest THEN {<<self.n_columns - 1, blk.i - 1>>}
                ELSE {<<c, blk.i - 1>> : c \in {c \in Cols : self.columns[c][blk.i - 1]}}
          /\ Cardinality(blk.invoked) =
                IF net.deepest THEN 1 ELSE self.count[blk.i - 1]

C8_Witness ==
    /\ pc = "depth"
    /\ self.n_columns = 2
    /\ blk.i = 2
    /\ ~net.deepest
    /\ blk.invoked = {<<0, 1>>, <<1, 1>>}

\* C9 (as the spec states it): after the join at depth i the joined result is the
\* running output of every column in [0, n_columns).
C9_BroadcastToAll ==
    (pc = "depth" /\ blk.i > 0) => \A c \in Cols : blk.outs[c] = jn.out

\* C9 (amended): depth levels are processed in increasing order and after the
\* join at depth i the joined result is the running output of exactly the
\* columns joined at that depth (n_columns - count[i] .. n_columns-1, or column
\* n_columns-1 alone when deepest); every other column keeps its running output.
C9_Step ==
    (pc = "depth" /\ pc' = "depth") =>
        /\ blk'.i = blk.i + 1
        /\ \A c \in Cols :
              blk'.outs[c] =
                 IF c >= self.n_columns - (IF net.deepest THEN 1 ELSE self.count[blk.i])
                 THEN jn'.out
                 ELSE blk.outs[c]

C9_BroadcastToJoined == [][C9_Step]_vars

C9_Witness ==
    /\ pc = "depth"
    /\ self.n_columns = 2
    /\ ~net.deepest
    /\ blk.i = 1
    /\ blk.outs[0] = blk.input
    /\ blk.outs[1] = jn.out
    /\ jn.out # blk.input

\* C10: training mode, deepest = False: for a global sample k with chosen column
\* g, column g's running output is the chain of column g's transforms applied so
\* far to the sample's block input; a join at a depth where g is active yields
\* column g's output, one where g is inactive yields zero and does not touch
\* column g; the value returned is column g's whole chain.
C10_GlobalSample ==
    (pc = "depth" /\ self.training /\ ~net.deepest) =>
        \A k \in 0..(net.GB - 1) :
            LET g == net.global_cols.cols[k]
            IN /\ blk.outs[g][k] = ColumnChain(g, blk.input[k], blk.i)
               /\ blk.i > 0 =>
                     IF self.columns[g][blk.i - 1]
                     THEN jn.out[k] = jn.outs[g - blk.st][k]
                     ELSE jn.out[k] = Zero
               /\ blk.i = self.max_depth =>
                     forward_return(blk.outs)[k] =
                        ColumnChain(g, blk.input[k], self.max_depth)

C10_Witness ==
    /\ pc = "depth" /\ self.training /\ ~net.deepest
    /\ self.n_columns = 2 /\ ~self.doubler
    /\ blk.i = self.max_depth
    /\ hist.nblocks = 1
    /\ net.GB = 1
    /\ net.global_cols.cols[0] = 0
    /\ forward_return(blk.outs)[0] = <<5, 1>>

====
